---------------------------- MODULE Spec2Model ----------------------------
(***************************************************************************)
(* Model of the invoice generator (src/src/main.rs): the loop of main that *)
(* generates one Invoice per iteration, pushes it into the batch buffer,   *)
(* flushes the buffer through insert_invoices every batch_size records and *)
(* once more after the loop for a non-empty remainder, then prints the     *)
(* count.  Each await of insert_invoices is a suspension point and is a    *)
(* step of its own; everything between two awaits is one step.             *)
(*                                                                         *)
(* Representation.  A NaiveDate is its day number (days since 1970-01-01), *)
(* a NaiveDateTime is [date, secs] with secs the seconds after midnight.   *)
(* A draw of rng.gen_range over a float range is an integer number of      *)
(* thousandths (the f64 grid is finer, the two-decimal formatting only     *)
(* needs the third decimal and what follows it on one side of a half).     *)
(* A formatted "{:.2}" string is [whole, frac] with frac its sequence of   *)
(* fractional digits; a BigDecimal is [digits, scale], value               *)
(* digits / 10^scale.                                                      *)
(***************************************************************************)
EXTENDS Integers, Sequences, FiniteSets, TLC

VARIABLES
    pc,            \* position of main: "loop", "await_loop", "await_final", "done", "failed"
    num_invoices,  \* the parsed command line argument (main.rs:71)
    batch_size,    \* capacity of the batch (main.rs:64)
    i,             \* iterations of `for _ in 0..num_invoices` started so far
    invoices,      \* the batch buffer (main.rs:65)
    calls,         \* history of insert_invoices calls: column arrays, position, result
    table,         \* rows of the invoices table in the store
    stdout,        \* counts printed by println! (main.rs:105)
    generated      \* history of every Invoice built by the loop, in order

vars == <<pc, num_invoices, batch_size, i, invoices, calls, table, stdout, generated>>

---------------------------------------------------------------------------
(* Bounds of the model *)

MaxCount == 5      \* largest num_invoices explored by Spec
MaxNeg == 2        \* most negative num_invoices explored by Spec is -MaxNeg
MaxBatch == 3      \* largest batch_size explored by Spec
Edge == 12         \* thousandths explored next to each end of a float range

(* Program constants *)

BatchSizeSrc == 10000
MaxDueDays == 90
TotalLo == 100
TotalHi == 10000
TaxLo == 10
TaxHi == 1000
CustomerIdLo == 1
CustomerIdHi == 10000

statuses == <<"Paid", "Pending", "Overdue">>

NULL == [null |-> TRUE]

---------------------------------------------------------------------------
(* Dates *)

\* NaiveDate::from_ymd_opt(y, m, d) as a day number (proleptic Gregorian).
FromYmd(y, m, d) ==
    LET yy  == IF m <= 2 THEN y - 1 ELSE y
        era == yy \div 400
        yoe == yy - era * 400
        mp  == IF m > 2 THEN m - 3 ELSE m + 9
        doy == (153 * mp + 2) \div 5 + d - 1
        doe == yoe * 365 + yoe \div 4 - yoe \div 100 + doy
    IN  era * 146097 + doe - 719468

start_date == FromYmd(2021, 1, 1)
end_date == FromYmd(2024, 6, 16)

\* (end - start).num_days()
days_in_range(start, end) == end - start

\* Mutant: the upper end of the draw excluded, gen_range(0..days_in_range).
DayDrawsExclusive(start, end) == 0 .. (days_in_range(start, end) - 1)

\* The values rng.gen_range(0..=days_in_range) can return.
DayDraws(start, end) == 0 .. days_in_range(start, end)

\* random_date_in_range: start + Duration::days(draw)
random_date_in_range(draw, start, end) == start + draw

\* NaiveDate::and_hms_opt(h, m, s)
AndHms(date, h, m, s) == [date |-> date, secs |-> h * 3600 + m * 60 + s]

\* NaiveDateTime + Duration::days(d)
PlusDays(dt, d) == [date |-> dt.date + d, secs |-> dt.secs]

\* The values rng.gen_range(0..=90) can return.
DueDraws == 0 .. MaxDueDays

---------------------------------------------------------------------------
(* Amounts *)

\* The least and the greatest value rng.gen_range(lo..hi) can return for a
\* float range, in thousandths: lo is inclusive, hi exclusive.
FloatMin(lo) == lo * 1000
FloatMax(hi) == hi * 1000 - 1

\* format!("{:.2}", x): x in thousandths, rounded to the nearest hundredth,
\* an exact half to the even hundredth.
Format2(x) ==
    LET down == x \div 10
        r    == x % 10
        c    == IF r > 5 \/ (r = 5 /\ down % 2 = 1) THEN down + 1 ELSE down
    IN  [whole |-> c \div 100, frac |-> <<(c % 100) \div 10, c % 10>>]

RECURSIVE DigitsValue(_)
DigitsValue(ds) ==
    IF ds = <<>> THEN 0
    ELSE 10 * DigitsValue(SubSeq(ds, 1, Len(ds) - 1)) + ds[Len(ds)]

RECURSIVE Pow10(_)
Pow10(n) == IF n = 0 THEN 1 ELSE 10 * Pow10(n - 1)

\* BigDecimal::from_str: the digits of the string without the point, and as
\* scale the number of digits after the point.
BigDecimalFromStr(s) ==
    [digits |-> s.whole * Pow10(Len(s.frac)) + DigitsValue(s.frac),
     scale  |-> Len(s.frac)]

---------------------------------------------------------------------------
(* One iteration's random draws and the Invoice built from them *)

\* d: [day, due, total, tax, cid, name, status]
MakeInvoice(d) ==
    LET invoice_date == AndHms(random_date_in_range(d.day, start_date, end_date), 0, 0, 0)
        due_date     == PlusDays(invoice_date, d.due)
        total_amount == BigDecimalFromStr(Format2(d.total))
        tax_amount   == BigDecimalFromStr(Format2(d.tax))
    IN  [customer_id   |-> d.cid,
         customer_name |-> d.name,
         invoice_date  |-> invoice_date,
         due_date      |-> due_date,
         total_amount  |-> total_amount,
         tax_amount    |-> tax_amount,
         status        |-> statuses[d.status]]

Draw(day, due, total, tax, cid, name, status) ==
    [day |-> day, due |-> due, total |-> total, tax |-> tax,
     cid |-> cid, name |-> name, status |-> status]

\* Three draws at the ends and in the middle of every range: the records
\* the pipeline specification pushes through the batches.
SampleDraws ==
    { Draw(0, 0, TotalLo * 1000, TaxLo * 1000, CustomerIdLo, "Ann Lee", 1),
      Draw(days_in_range(start_date, end_date) \div 2, 30, 5000250, 500750, 5000, "Bo Diaz", 2),
      Draw(days_in_range(start_date, end_date), MaxDueDays, TotalHi * 1000 - 10,
           TaxHi * 1000 - 10, CustomerIdHi - 1, "Cy Roth", 3) }

\* The draws within Edge thousandths of either end of a float range.
EdgeDraws(lo, hi) ==
    (FloatMin(lo) .. (FloatMin(lo) + Edge)) \cup ((FloatMax(hi) - Edge) .. FloatMax(hi))

\* The draws of the generator specification: every day of the window with
\* every due offset, and the ends of both amount ranges.
GenDraws ==
    { Draw(day, due, 5000250, 500750, 5000, "Bo Diaz", 2) :
        day \in DayDraws(start_date, end_date), due \in DueDraws }
    \cup
    { Draw(0, 0, total, tax, 5000, "Bo Diaz", 2) :
        total \in EdgeDraws(TotalLo, TotalHi), tax \in EdgeDraws(TaxLo, TaxHi) }

---------------------------------------------------------------------------
(* insert_invoices *)

\* Mutant: the first record of the slice skipped.
ColumnTail(invs, f) == [k \in 1 .. (Len(invs) - 1) |-> invs[k + 1][f]]

\* invoices.iter().map(|i| i.<field>).collect()
Column(invs, f) == [k \in 1 .. Len(invs) |-> invs[k][f]]

\* Mutant: the names collected in reverse order.
ColumnsMisaligned(invs) ==
    [customer_ids   |-> Column(invs, "customer_id"),
     customer_names |-> [k \in 1 .. Len(invs) |-> invs[Len(invs) + 1 - k].customer_name],
     invoice_dates  |-> Column(invs, "invoice_date"),
     due_dates      |-> Column(invs, "due_date"),
     total_amounts  |-> Column(invs, "total_amount"),
     tax_amounts    |-> Column(invs, "tax_amount"),
     statuses       |-> Column(invs, "status")]

\* The seven arrays bound to $1..$7, in the order of the statement's columns.
Columns(invs) ==
    [customer_ids   |-> Column(invs, "customer_id"),
     customer_names |-> Column(invs, "customer_name"),
     invoice_dates  |-> Column(invs, "invoice_date"),
     due_dates      |-> Column(invs, "due_date"),
     total_amounts  |-> Column(invs, "total_amount"),
     tax_amounts    |-> Column(invs, "tax_amount"),
     statuses       |-> Column(invs, "status")]

ColumnNames ==
    {"customer_ids", "customer_names", "invoice_dates", "due_dates",
     "total_amounts", "tax_amounts", "statuses"}

Max(S) == CHOOSE x \in S : \A y \in S : y <= x

At(arr, k) == IF k <= Len(arr) THEN arr[k] ELSE NULL

\* INSERT INTO invoices (...) SELECT * FROM UNNEST($1, ..., $7): one row per
\* index up to the longest array, a shorter array padded with NULL.
Unnest(cols) ==
    [k \in 1 .. Max({Len(cols[c]) : c \in ColumnNames}) |->
        [customer_id   |-> At(cols.customer_ids, k),
         customer_name |-> At(cols.customer_names, k),
         invoice_date  |-> At(cols.invoice_dates, k),
         due_date      |-> At(cols.due_dates, k),
         total_amount  |-> At(cols.total_amounts, k),
         tax_amount    |-> At(cols.tax_amounts, k),
         status        |-> At(cols.statuses, k)]]

\* insert_invoices up to its await: the arrays are built from the slice and
\* the statement is sent.  `at` records how many records main had pushed.
InsertCall(invs, pushed) == [cols |-> Columns(invs), at |-> pushed, result |-> "pending"]

Resolve(cs, r) == [cs EXCEPT ![Len(cs)].result = r]

---------------------------------------------------------------------------
(* main *)

Init ==
    /\ pc = "loop"
    /\ num_invoices \in (-MaxNeg) .. MaxCount
    /\ batch_size \in 1 .. MaxBatch
    /\ i = 0
    /\ invoices = <<>>
    /\ calls = <<>>
    /\ table = <<>>
    /\ stdout = <<>>
    /\ generated = <<>>

\* Mutant: the flush of the loop triggered one record late,
\* `invoices.len() > batch_size`.
PushOffByOne(draws) ==
    /\ pc = "loop"
    /\ i < num_invoices
    /\ \E d \in draws :
         LET invoice == MakeInvoice(d)
             pushed  == Append(invoices, invoice)
         IN  /\ generated' = Append(generated, invoice)
             /\ invoices' = pushed
             /\ i' = i + 1
             /\ IF Len(pushed) > batch_size
                  THEN /\ calls' = Append(calls, InsertCall(pushed, i + 1))
                       /\ pc' = "await_loop"
                  ELSE /\ calls' = calls
                       /\ pc' = "loop"
    /\ UNCHANGED <<num_invoices, batch_size, table, stdout>>

\* One iteration of `for _ in 0..num_invoices` up to its end or to the
\* await of insert_invoices: build the Invoice, push it, and when the
\* buffer has reached batch_size call insert_invoices.
Push(draws) ==
    /\ pc = "loop"
    /\ i < num_invoices
    /\ \E d \in draws :
         LET invoice == MakeInvoice(d)
             pushed  == Append(invoices, invoice)
         IN  /\ generated' = Append(generated, invoice)
             /\ invoices' = pushed
             /\ i' = i + 1
             /\ IF Len(pushed) = batch_size
                  THEN /\ calls' = Append(calls, InsertCall(pushed, i + 1))
                       /\ pc' = "await_loop"
                  ELSE /\ calls' = calls
                       /\ pc' = "loop"
    /\ UNCHANGED <<num_invoices, batch_size, table, stdout>>

\* Mutant: the buffer not cleared after the flush.
LoadOkNoClear ==
    /\ pc = "await_loop"
    /\ table' = table \o Unnest(calls[Len(calls)].cols)
    /\ calls' = Resolve(calls, "ok")
    /\ pc' = "loop"
    /\ UNCHANGED <<num_invoices, batch_size, i, invoices, stdout, generated>>

\* The statement of the flush in the loop succeeds: the rows are in the
\* table, insert_invoices returns Ok(()), main clears the buffer.
LoadOk ==
    /\ pc = "await_loop"
    /\ table' = table \o Unnest(calls[Len(calls)].cols)
    /\ calls' = Resolve(calls, "ok")
    /\ invoices' = <<>>
    /\ pc' = "loop"
    /\ UNCHANGED <<num_invoices, batch_size, i, stdout, generated>>

\* Mutant: the error of a flush ignored, the run goes on.
LoadErrContinue ==
    /\ pc \in {"await_loop", "await_final"}
    /\ calls' = Resolve(calls, "err")
    /\ pc' = "loop"
    /\ UNCHANGED <<num_invoices, batch_size, i, invoices, table, stdout, generated>>

\* The statement fails: `?` returns the error from insert_invoices and from
\* main.
LoadErr ==
    /\ pc \in {"await_loop", "await_final"}
    /\ calls' = Resolve(calls, "err")
    /\ pc' = "failed"
    /\ UNCHANGED <<num_invoices, batch_size, i, invoices, table, stdout, generated>>

\* Mutant: the number of rows stored printed instead of the argument.
ReportStored == Append(stdout, Len(table))

\* println!("Inserted {} invoices in: {:?}", num_invoices, duration)
Report == Append(stdout, num_invoices)

\* Mutant: the flush after the loop left out.
LoopExitNoFinal ==
    /\ pc = "loop"
    /\ ~(i < num_invoices)
    /\ pc' = "done"
    /\ stdout' = Report
    /\ UNCHANGED <<num_invoices, batch_size, i, invoices, calls, table, generated>>

\* Mutant: the flush after the loop made without the is_empty test.
LoopExitAlwaysFlush ==
    /\ pc = "loop"
    /\ ~(i < num_invoices)
    /\ calls' = Append(calls, InsertCall(invoices, i))
    /\ pc' = "await_final"
    /\ UNCHANGED <<num_invoices, batch_size, i, invoices, table, stdout, generated>>

\* The loop is exhausted: a non-empty buffer is handed to insert_invoices,
\* an empty one leads straight to the report.
LoopExit ==
    /\ pc = "loop"
    /\ ~(i < num_invoices)
    /\ IF invoices # <<>>
         THEN /\ calls' = Append(calls, InsertCall(invoices, i))
              /\ pc' = "await_final"
              /\ stdout' = stdout
         ELSE /\ calls' = calls
              /\ pc' = "done"
              /\ stdout' = Report
    /\ UNCHANGED <<num_invoices, batch_size, i, invoices, table, generated>>

\* The statement of the final flush succeeds; main prints and returns Ok.
FinalOk ==
    /\ pc = "await_final"
    /\ table' = table \o Unnest(calls[Len(calls)].cols)
    /\ calls' = Resolve(calls, "ok")
    /\ stdout' = Report
    /\ pc' = "done"
    /\ UNCHANGED <<num_invoices, batch_size, i, invoices, generated>>

Next ==
    \/ Push(SampleDraws)
    \/ LoadOk
    \/ LoadErr
    \/ LoopExit
    \/ FinalOk

Spec == Init /\ [][Next]_vars

\* The generator alone: the first iteration of the loop of one run with the
\* program's batch size, over the draws of GenDraws.
InitGen ==
    /\ pc = "loop"
    /\ num_invoices = 1
    /\ batch_size = BatchSizeSrc
    /\ i = 0
    /\ invoices = <<>>
    /\ calls = <<>>
    /\ table = <<>>
    /\ stdout = <<>>
    /\ generated = <<>>

NextGen == Push(GenDraws)

SpecGen == InitGen /\ [][NextGen]_vars

---------------------------------------------------------------------------
(* Vocabulary of the properties *)

CeilDiv(a, b) == (a + b - 1) \div b

\* Length of the k-th call's arrays when they all have one length, else -1.
ArrayLen(k) ==
    LET n == Len(calls[k].cols.customer_ids)
    IN  IF \A c \in ColumnNames : Len(calls[k].cols[c]) = n THEN n ELSE -1

BatchSizes == [k \in 1 .. Len(calls) |-> ArrayLen(k)]

\* Records main had pushed when the call before the k-th was made.
PushedBefore(k) == IF k = 1 THEN 0 ELSE calls[k - 1].at

RECURSIVE SumOk(_)
SumOk(k) ==
    IF k = 0 THEN 0
    ELSE SumOk(k - 1) + (IF calls[k].result = "ok" THEN ArrayLen(k) ELSE 0)

\* floor(n / b) batches of b records, then the remainder if there is one.
ExpectedSizes(n, b) ==
    [k \in 1 .. CeilDiv(n, b) |-> IF k <= n \div b THEN b ELSE n % b]

Succeeded == pc = "done"
Failed == \E k \in 1 .. Len(calls) : calls[k].result = "err"
InFlight == pc \in {"await_loop", "await_final"}

---------------------------------------------------------------------------
(* Properties *)

\* C1: a run in which every load succeeds, for a count >= 0, has made
\* exactly ceil(num_invoices / batch_size) calls of insert_invoices, all of
\* them successful, and none when the count is 0.
C1_FlushCount ==
    (Succeeded /\ num_invoices >= 0) =>
        /\ Len(calls) = CeilDiv(num_invoices, batch_size)
        /\ \A k \in 1 .. Len(calls) : calls[k].result = "ok"
        /\ (num_invoices = 0 => calls = <<>>)

C1_Witness ==
    /\ Succeeded
    /\ num_invoices = 5
    /\ batch_size = 2
    /\ Len(calls) = 3

\* C2: on success with a count >= 0 the printed count is num_invoices, it
\* is the number of rows stored and the sum of the sizes of the batches
\* handed to insert_invoices, and the stored rows are the generated records,
\* each once and in order.
C2_InsertedIsTotal ==
    (Succeeded /\ num_invoices >= 0) =>
        /\ stdout = <<num_invoices>>
        /\ Len(table) = num_invoices
        /\ SumOk(Len(calls)) = num_invoices
        /\ Len(generated) = num_invoices
        /\ table = generated

C2_Witness ==
    /\ Succeeded
    /\ num_invoices = 5
    /\ batch_size = 3
    /\ Len(table) = 5
    /\ table[1] # table[5]

\* C3: once a flush has been rejected the run is in its failed state and
\* takes no further step (no record generated, no flush, no retry, nothing
\* printed); the rejected call is the last one, and the rows stored are
\* those of the successful flushes before it, the first generated records.
C3_State ==
    Failed =>
        /\ pc = "failed"
        /\ calls[Len(calls)].result = "err"
        /\ \A k \in 1 .. Len(calls) - 1 : calls[k].result = "ok"
        /\ Len(table) = SumOk(Len(calls))
        /\ Len(table) = batch_size * (Len(calls) - 1)
        /\ table = SubSeq(generated, 1, Len(table))
        /\ stdout = <<>>

C3_HaltOnFirstError == [](C3_State) /\ [][~Failed]_vars

C3_Witness ==
    /\ pc = "failed"
    /\ Len(calls) = 2
    /\ calls[1].result = "ok"
    /\ calls[2].result = "err"
    /\ Len(table) = 2
    /\ Len(generated) = 4
    /\ i < num_invoices

\* C4: every call of insert_invoices passes seven arrays of one length, the
\* number of records pushed since the call before it (since the start of
\* the run for the first call).
C4_EqualLengths ==
    \A k \in 1 .. Len(calls) :
        /\ \A c \in ColumnNames : Len(calls[k].cols[c]) = calls[k].at - PushedBefore(k)
        /\ calls[k].at <= Len(generated)

C4_Witness ==
    /\ Len(calls) = 3
    /\ ArrayLen(1) = 2
    /\ ArrayLen(3) = 1
    /\ calls[3].at = 5

\* C5: the sizes of the batches are a function of (num_invoices,
\* batch_size): floor(n / b) batches of b records, then one batch of n mod b
\* records when that is not zero; every run's calls are a prefix of that
\* sequence, a successful run's calls are all of it, and no call passes an
\* empty batch.
C5_Shape ==
    /\ \A k \in 1 .. Len(calls) : ArrayLen(k) >= 1
    /\ num_invoices >= 0 =>
         /\ Len(calls) <= CeilDiv(num_invoices, batch_size)
         /\ \A k \in 1 .. Len(calls) :
              ArrayLen(k) = ExpectedSizes(num_invoices, batch_size)[k]
         /\ Succeeded => BatchSizes = ExpectedSizes(num_invoices, batch_size)

\* The spec's example, 25,000 records in batches of 10,000, at the ratio
\* 5 : 2: two full batches and one of half the capacity.
C5_Witness ==
    /\ Succeeded
    /\ num_invoices = 5
    /\ batch_size = 2
    /\ BatchSizes = <<2, 2, 1>>

\* C6: every generated invoice has amounts with exactly two fractional
\* digits and 100.00 <= total_amount < 10000.00, 10.00 <= tax_amount <
\* 1000.00.
InRange(amount, lo, hi) ==
    /\ amount.scale = 2
    /\ lo * Pow10(amount.scale) <= amount.digits
    /\ amount.digits < hi * Pow10(amount.scale)

C6_AmountsInRange ==
    \A k \in 1 .. Len(generated) :
        /\ InRange(generated[k].total_amount, TotalLo, TotalHi)
        /\ InRange(generated[k].tax_amount, TaxLo, TaxHi)

\* C7: every generated invoice_date is midnight of a day of the window
\* [start_date, end_date], due_date is invoice_date plus 0..90 whole days
\* (so never before it), and while the loop can iterate each end of the
\* window and each end of the due offsets can be drawn.
C7_Generated ==
    \A k \in 1 .. Len(generated) :
        LET inv == generated[k] IN
        /\ inv.invoice_date.secs = 0
        /\ start_date <= inv.invoice_date.date
        /\ inv.invoice_date.date <= end_date
        /\ inv.due_date.secs = inv.invoice_date.secs
        /\ inv.due_date.date - inv.invoice_date.date \in 0 .. 90
        /\ inv.due_date.date >= inv.invoice_date.date

\* Some draw of the iteration builds an invoice of that date, due that many
\* days later.
CanDraw(date, offset) ==
    \E d \in GenDraws :
        /\ MakeInvoice(d).invoice_date.date = date
        /\ MakeInvoice(d).due_date.date = date + offset

C7_Dates ==
    /\ C7_Generated
    /\ (pc = "loop" /\ i < num_invoices) =>
         /\ CanDraw(start_date, 0)
         /\ CanDraw(start_date, 90)
         /\ CanDraw(end_date, 0)
         /\ CanDraw(end_date, 90)

C7_Witness ==
    /\ Len(generated) = 1
    /\ generated[1].invoice_date = [date |-> FromYmd(2024, 6, 16), secs |-> 0]
    /\ generated[1].due_date = [date |-> FromYmd(2024, 9, 14), secs |-> 0]

\* C8: in every call, for every index j below the batch length, the j-th
\* elements of the seven arrays are the fields of the j-th record pushed
\* since the call before it.
C8_Aligned ==
    \A k \in 1 .. Len(calls) :
        \A j \in 1 .. (calls[k].at - PushedBefore(k)) :
            LET cols == calls[k].cols
                inv  == generated[PushedBefore(k) + j]
            IN  /\ \A c \in ColumnNames : j <= Len(cols[c])
                /\ cols.customer_ids[j] = inv.customer_id
                /\ cols.customer_names[j] = inv.customer_name
                /\ cols.invoice_dates[j] = inv.invoice_date
                /\ cols.due_dates[j] = inv.due_date
                /\ cols.total_amounts[j] = inv.total_amount
                /\ cols.tax_amounts[j] = inv.tax_amount
                /\ cols.statuses[j] = inv.status

C8_Witness ==
    /\ Len(calls) = 2
    /\ ArrayLen(2) = 2
    /\ calls[1].cols.customer_names = <<"Bo Diaz", "Cy Roth">>
    /\ calls[2].cols.customer_names = <<"Cy Roth", "Ann Lee">>
    /\ calls[2].cols.statuses = <<"Overdue", "Paid">>
    /\ calls[2].cols.customer_ids = <<CustomerIdHi - 1, CustomerIdLo>>

\* C9: the buffer never holds more than batch_size records and holds fewer
\* before each push; while a load is in flight it is the only pending call
\* and the buffer still holds the records passed to it; the buffer is
\* emptied only by the completion of a successful flush of the loop, which
\* always empties it.
C9_State ==
    /\ Len(invoices) <= batch_size
    /\ \A k \in 1 .. Len(calls) :
         calls[k].result = "pending" <=> (InFlight /\ k = Len(calls))
    /\ InFlight =>
         /\ invoices # <<>>
         /\ invoices = SubSeq(generated, PushedBefore(Len(calls)) + 1, calls[Len(calls)].at)
         /\ Len(invoices) = ArrayLen(Len(calls))

C9_Step ==
    /\ generated' # generated => Len(invoices) < batch_size
    /\ (pc = "await_loop" /\ pc' = "loop") => invoices' = <<>>
    /\ \A n \in 1 .. Len(invoices) :
         Len(invoices') < n =>
            /\ pc = "await_loop"
            /\ calls'[Len(calls')].result = "ok"
            /\ invoices' = <<>>

C9_Buffer == [](C9_State) /\ [][C9_Step]_vars

C9_Witness ==
    /\ pc = "loop"
    /\ batch_size = 3
    /\ Len(calls) = 1
    /\ calls[1].result = "ok"
    /\ invoices = <<>>
    /\ i = 3
    /\ i < num_invoices

\* C10: with a negative count no record is generated, no flush is issued,
\* the run can only end in its success state, and there it has printed the
\* negative count although no row was stored.
C10_NegativeCount ==
    num_invoices < 0 =>
        /\ generated = <<>>
        /\ calls = <<>>
        /\ table = <<>>
        /\ pc \in {"loop", "done"}
        /\ pc = "loop" => (ENABLED LoopExit /\ ~ENABLED Push(SampleDraws))
        /\ pc = "done" => (stdout = <<num_invoices>> /\ stdout[1] # Len(table))

C10_Witness ==
    /\ Succeeded
    /\ num_invoices = -2
    /\ stdout = <<-2>>
    /\ table = <<>>

=============================================================================
